---- MODULE Spec2Model ----
(***************************************************************************)
(* The JSON-RPC handlers of pegnetd's API server (srv/methods.go, second   *)
(* revision, lines 334-811).  A request is served by one handler call.     *)
(* send-transaction talks to the external Factom client in two separate    *)
(* calls (GetBalance, ComposeCreate) and is modelled step by step so that  *)
(* concurrent requests interleave; every other handler only reads its      *)
(* collaborators and is modelled as one action.                            *)
(***************************************************************************)
EXTENDS Integers, Sequences, FiniteSets, TLC

VARIABLES
    ecKeyValid,  \* whether the configured EC private key parses
    ecBalance,   \* entry credits of the funding address at the Factom client
    pc,          \* pc[c]: where request c is in its handler
    req,         \* req[c]: the request and what its collaborators answer
    loc,         \* loc[c]: sendTransaction's locals (balance, cost) and submission record
    res,         \* res[c]: what the handler returned
    calls        \* calls[c]: the collaborator calls the handler has made

vars == <<ecKeyValid, ecBalance, pc, req, loc, res, calls>>

----------------------------------------------------------------------------
(* Bounds                                                                  *)

NumClients == 2     \* requests in flight at once
MaxBalance == 2     \* largest initial entry-credit balance
CostLimit == 2      \* largest cost entry.Cost accepts; a larger entry is an error

MaxOffset == 3      \* largest request offset of get-transactions
MaxActions == 3     \* most actions the store returns in one page
MaxCount == 5       \* largest total count the store reports
MaxSync == 9        \* largest locally processed height
MaxAddrs == 2       \* addresses in an exhaustively enumerated store
MaxAmount == 1      \* largest balance of one ticker
MaxRate == 2        \* largest rate of one ticker
MaxStride == 2      \* strides of the balance patterns of a large store
MaxExtra == 1       \* a large store holds up to Top100Limit + MaxExtra addresses
MaxHeight == 5      \* heights the Factom client reports run over 0..MaxHeight and the uint32 edge values

Clients == 1..NumClients
Entries == 1..(CostLimit + 1)     \* an entry is named by the credits it would cost

----------------------------------------------------------------------------
(* Values                                                                  *)

TransactionChain == "TransactionChain"
NilID == <<>>
NoRequest == [method |-> "none"]
NoResult == [kind |-> "none"]
NoLocals == [checked |-> FALSE, balance |-> 0, cost |-> 0, submitted |-> FALSE, avail |-> 0, failed |-> FALSE]

ErrorRes(code) == [kind |-> "error", code |-> code]

\* The raw "params" payload: empty (len(data) == 0), or a JSON object with the
\* named fields; wellTyped is whether every field's value decodes into its type;
\* chain is the chain id the payload carries ("none" when it carries none).
EmptyData == [empty |-> TRUE, fields |-> {}, wellTyped |-> TRUE, chain |-> "none"]
ChainValue(f) == IF "chainid" \in f THEN {TransactionChain, "OtherChain"} ELSE {"none"}
Payloads(universe) ==
    {EmptyData} \cup
    UNION {{[empty |-> FALSE, fields |-> f, wellTyped |-> w, chain |-> ch] :
               w \in BOOLEAN, ch \in ChainValue(f)} : f \in SUBSET universe}

----------------------------------------------------------------------------
(* Parameter types                                                         *)

\* the fields each parameter type declares
Schema(params) ==
    CASE params = "ParamsSendTransaction" -> {"entry", "dryrun", "chainid"}
      [] params = "ParamsGetPegnetTransaction" ->
             {"hash", "address", "height", "offset", "desc",
              "transfer", "conversion", "coinbase", "burn"}
      [] params = "ParamsGetTransaction" -> {"hash", "chainid"}
      [] params = "ParamsGetPegnetTransactionStatus" -> {"hash"}
      [] params = "ParamsGetPegnetBalances" -> {"address"}
      [] params = "ParamsGetPegnetRates" -> {"height"}
      [] OTHER -> {}

\* the fields a parameter type requires
Required(params) ==
    CASE params = "ParamsSendTransaction" -> {"entry"}
      [] params = "ParamsGetTransaction" -> {"hash"}
      [] params = "ParamsGetPegnetTransactionStatus" -> {"hash"}
      [] params = "ParamsGetPegnetBalances" -> {"address"}
      [] params = "ParamsGetPegnetRates" -> {"height"}
      [] OTHER -> {}

\* params.IsValid(): the type's semantic validation
IsValid(params, data) ==
    IF Required(params) \subseteq data.fields THEN "ok" ELSE "InvalidParams"

\* params.ValidChainID(): the chain id the parameters carry, if any
ValidChainID(data) == data.chain

\* d.DisallowUnknownFields(); d.Decode(v): TRUE when decoding succeeds
unmarshalStrict(data, params) ==
    data.wellTyped /\ data.fields \subseteq Schema(params)

\* validate(data, params): "ok" or the error it returns
validate(data, params) ==
    IF params = "nil"
    THEN IF ~data.empty THEN "InvalidParams" ELSE "ok"
    ELSE IF data.empty THEN IsValid(params, data)
    ELSE IF ~unmarshalStrict(data, params) THEN "InvalidParams"
    ELSE IF IsValid(params, data) # "ok" THEN IsValid(params, data)
    ELSE IF ValidChainID(data) # "none" /\ ValidChainID(data) # TransactionChain
         THEN "TokenNotFound"
    ELSE "ok"

----------------------------------------------------------------------------
(* send-transaction                                                        *)

\* params.Entry(): the entry's hash is content-addressed
EntryHash(e) == <<"entryhash", e>>

\* entry.Cost(false): the cost in entry credits, or an error
Cost(e) == [err |-> e > CostLimit, cost |-> e]

\* the submission identifier ComposeCreate returns
ComposeTxID(e) == <<"txid", e>>

\* a dry-run flag that is not honoured
DryRunIgnored(dryRun) == FALSE

\* if !params.DryRun: whether the balance check and the submission are skipped
DryRunSkips(dryRun) == dryRun

\* a funding check that lets a balance one credit short pass
InsufficientOffByOne(balance, cost) == balance + 1 < cost

\* if balance < uint64(cost)
Insufficient(balance, cost) == balance < cost

SendResult(txID, e) ==
    [kind |-> "send", chainID |-> TransactionChain, txID |-> txID, hash |-> EntryHash(e)]

Return(c, r) == pc' = [pc EXCEPT ![c] = "done"] /\ res' = [res EXCEPT ![c] = r]
\* panic(err): the handler unwinds and returns nothing; the request stays here
Panic(c) == pc' = [pc EXCEPT ![c] = "panicked"] /\ res' = res

\* sendTransaction up to the dry-run test: validate, parse the configured key,
\* build the entry; a dry run returns here
sendTransactionStart(c, payloads) ==
    /\ pc[c] = "idle"
    /\ \E data \in payloads, dryRun \in BOOLEAN, e \in Entries :
          /\ "dryrun" \notin data.fields => ~dryRun
          /\ "entry" \notin data.fields => e = 1
          /\ req' = [req EXCEPT ![c] = [method |-> "send-transaction", data |-> data,
                                         dryRun |-> dryRun, entry |-> e]]
          /\ LET v == validate(data, "ParamsSendTransaction") IN
                IF v # "ok" THEN Return(c, ErrorRes(v))
                ELSE IF ~ecKeyValid THEN Return(c, ErrorRes("InternalError"))
                ELSE IF DryRunSkips(dryRun) THEN Return(c, SendResult(NilID, e))
                ELSE pc' = [pc EXCEPT ![c] = "GetBalance"] /\ res' = res
    /\ UNCHANGED <<ecKeyValid, ecBalance, loc, calls>>

\* balance lookup at the client, cost computation and the funding check
sendTransactionGetBalance(c) ==
    /\ pc[c] = "GetBalance"
    /\ calls' = [calls EXCEPT ![c] = @ \cup {"GetBalance"}]
    /\ \E ok \in BOOLEAN :
          IF ~ok
          THEN /\ Panic(c)
               /\ loc' = [loc EXCEPT ![c].failed = TRUE]
          ELSE LET balance == ecBalance
                   cost == Cost(req[c].entry)
               IN  IF cost.err
                   THEN /\ Return(c, ErrorRes("InvalidTransaction"))
                        /\ loc' = loc
                   ELSE /\ loc' = [loc EXCEPT ![c].checked = TRUE,
                                              ![c].balance = balance,
                                              ![c].cost = cost.cost]
                        /\ IF Insufficient(balance, cost.cost)
                           THEN Return(c, ErrorRes("NoEC"))
                           ELSE pc' = [pc EXCEPT ![c] = "ComposeCreate"] /\ res' = res
    /\ UNCHANGED <<ecKeyValid, ecBalance, req>>

\* entry.ComposeCreate: commit and reveal the entry at the client, which
\* charges the funding address (at most what it holds); avail records what the
\* address held when the entry was submitted; then the result is returned
sendTransactionComposeCreate(c) ==
    /\ pc[c] = "ComposeCreate"
    /\ calls' = [calls EXCEPT ![c] = @ \cup {"ComposeCreate"}]
    /\ \E ok \in BOOLEAN :
          IF ~ok
          THEN /\ Panic(c)
               /\ loc' = [loc EXCEPT ![c].failed = TRUE]
               /\ ecBalance' = ecBalance
          ELSE /\ loc' = [loc EXCEPT ![c].submitted = TRUE, ![c].avail = ecBalance]
               /\ ecBalance' = IF ecBalance >= loc[c].cost
                               THEN ecBalance - loc[c].cost ELSE 0
               /\ Return(c, SendResult(ComposeTxID(req[c].entry), req[c].entry))
    /\ UNCHANGED <<ecKeyValid, req>>

\* the response has been written; the slot serves the next request
Finish(c) ==
    /\ pc[c] = "done"
    /\ pc' = [pc EXCEPT ![c] = "idle"]
    /\ req' = [req EXCEPT ![c] = NoRequest]
    /\ loc' = [loc EXCEPT ![c] = NoLocals]
    /\ res' = [res EXCEPT ![c] = NoResult]
    /\ calls' = [calls EXCEPT ![c] = {}]
    /\ UNCHANGED <<ecKeyValid, ecBalance>>

----------------------------------------------------------------------------
(* get-sync-status                                                         *)

Int32Max == 2147483647

\* a uint32 as its top bit and its low 31 bits
U32(n) == [top |-> 0, low |-> n]
U32High(n) == [top |-> 1, low |-> n]
Heights == {U32(n) : n \in 0..MaxHeight} \cup {U32(Int32Max), U32High(0), U32High(Int32Max)}

\* int32(x) of a uint32 x: the bit pattern reinterpreted
ToInt32(h) == IF h.top = 1 THEN (h.low - Int32Max) - 1 ELSE h.low

\* the body of getSyncStatus: ok is whether heights.Get succeeded, h the
\* directory block height it reported, sync is s.Node.GetCurrentSync()
SyncStatus(ok, h, sync) ==
    IF ~ok
    THEN [kind |-> "syncstatus", Sync |-> sync, Current |-> -1]
    ELSE [kind |-> "syncstatus", Sync |-> sync, Current |-> ToInt32(h)]

\* the payloads sent to a method that declares no parameters
NoParamPayloads ==
    {EmptyData, [empty |-> FALSE, fields |-> {"bogus"}, wellTyped |-> TRUE, chain |-> "none"]}

Serve(c, request, result, made) ==
    /\ pc[c] = "idle"
    /\ req' = [req EXCEPT ![c] = request]
    /\ Return(c, result)
    /\ calls' = [calls EXCEPT ![c] = made]
    /\ UNCHANGED <<ecKeyValid, ecBalance, loc>>

getSyncStatus(c) ==
    /\ pc[c] = "idle"
    /\ \E data \in NoParamPayloads, ok \in BOOLEAN, h \in Heights, sync \in 0..MaxSync :
        /\ ~ok => h = U32(0)
        /\ Serve(c, [method |-> "get-sync-status", data |-> data,
                     heightsOk |-> ok, directoryBlock |-> h, sync |-> sync],
                 SyncStatus(ok, h, sync),
                 {"Heights.Get"})

----------------------------------------------------------------------------
(* get-rich-list                                                           *)

Top100Limit == 100
USDScale == 100000000

Tickers == {"USD", "PEG"}
PTickerUSD == "USD"
NoRates == [t \in Tickers |-> 0]      \* a nil or empty map: every lookup yields 0

\* conversions.Convert(amount, fromRate, toRate), its error dropped: 0 when a
\* rate is 0, else amount * fromRate / toRate in integers
Convert(amount, fromRate, toRate) ==
    IF fromRate = 0 \/ toRate = 0 THEN 0 ELSE (amount * fromRate) \div toRate

\* for k, v := range balance { tmp, _ := Convert(v, rates[k], rates[USD]); usd += tmp }
RECURSIVE SumUSD(_, _, _)
SumUSD(T, balance, rates) ==
    IF T = {} THEN 0
    ELSE LET k == CHOOSE t \in T : TRUE
         IN  Convert(balance[k], rates[k], rates[PTickerUSD]) + SumUSD(T \ {k}, balance, rates)

\* float64(usd) / 1e8, kept as the fraction usd / USDScale
USDEquiv(usd) == [num |-> usd, den |-> USDScale]

\* a > b for two fractions over USDScale
Greater(a, b) == a.num > b.num

\* if usd == 0 { continue }
Skipped(usd) == usd = 0

Kept(total) == ~Skipped(total.usd)

\* the loop over addrs: the entries appended, in address order
Appended(n, balances, rates) ==
    LET totals == [a \in 1..n |-> [address |-> a,
                                   usd |-> SumUSD(Tickers, balances[a], rates)]]
        kept == SelectSeq(totals, Kept)
    IN  [i \in 1..Len(kept) |-> [address |-> kept[i].address,
                                 usdequiv |-> USDEquiv(kept[i].usd)]]

\* the less function handed to sort.Slice (the order of equal values is not relied on)
RichLess(x, y) == Greater(x.usdequiv, y.usdequiv)

\* a list that is never cut
NotTruncated(list) == list

\* if len(res.Top100) > 100 { res.Top100 = res.Top100[:100] }
Truncate(list) ==
    IF Len(list) > Top100Limit THEN SubSeq(list, 1, Top100Limit) ELSE list

\* the ranked list of a request whose store calls all succeeded
RichList(n, balances, rates) == Truncate(SortSeq(Appended(n, balances, rates), RichLess))

\* the balances of a small store, enumerated, and of a large store, by pattern
Amounts == 0..MaxAmount
BalanceMaps == [Tickers -> Amounts]
PatternBalances(n, k) ==
    [a \in 1..n |-> [t \in Tickers |->
        IF t = PTickerUSD THEN (IF a % k = 0 THEN MaxAmount ELSE 0)
        ELSE a % (MaxAmount + 1)]]
Stores ==
    UNION {[1..n -> BalanceMaps] : n \in 0..MaxAddrs}
    \cup {PatternBalances(n, k) : n \in (Top100Limit - 1)..(Top100Limit + MaxExtra),
                                  k \in 1..MaxStride}
RateMaps == [Tickers -> 0..MaxRate]

\* addrsErr, ratesErr: whether SelectAddresses, SelectRates fail; balErrAt: the
\* address whose SelectBalances fails (0: none)
getRichList(c) ==
    /\ pc[c] = "idle"
    /\ \E data \in NoParamPayloads, height \in {0, MaxSync}, addrsErr \in BOOLEAN,
          ratesErr \in BOOLEAN, balances \in Stores, rates \in RateMaps :
       \E balErrAt \in 0..Len(balances) :
        LET n == Len(balances)
            request == [method |-> "get-rich-list", data |-> data, height |-> height,
                        addrsErr |-> addrsErr, ratesErr |-> ratesErr, balErrAt |-> balErrAt,
                        balances |-> balances, rates |-> rates]
        IN  /\ addrsErr => (~ratesErr /\ n = 0 /\ rates = NoRates /\ height = 0)
            /\ ratesErr => (n = 0 /\ rates = NoRates /\ height = 0)
            /\ n > MaxAddrs => (balErrAt = 0 /\ height = 0 /\ data = EmptyData)
            /\ IF addrsErr
               THEN Serve(c, request, ErrorRes("StoreError"), {"SelectAddresses"})
               ELSE IF ratesErr
               THEN Serve(c, request, [kind |-> "rates", rates |-> rates],
                          {"SelectAddresses", "SelectRates"})
               ELSE IF balErrAt # 0
               THEN Serve(c, request, ErrorRes("StoreError"),
                          {"SelectAddresses", "SelectRates", "SelectBalances"})
               ELSE Serve(c, request,
                          [kind |-> "richlist", height |-> height,
                           top100 |-> RichList(n, balances, rates)],
                          {"SelectAddresses", "SelectRates"} \cup
                              (IF n > 0 THEN {"SelectBalances"} ELSE {}))

----------------------------------------------------------------------------
(* get-transactions                                                        *)

\* a next-offset test that also pages past the last action
NextOffsetInclusive(offset, n, count) ==
    IF offset + n <= count THEN offset + n ELSE 0

\* res.NextOffset: set only if params.Offset+len(actions) < count, else the zero value
NextOffset(offset, n, count) ==
    IF offset + n < count THEN offset + n ELSE 0

\* which store query runs: hash first, then address, then height
Selector(data) ==
    IF "hash" \in data.fields THEN "SelectTransactionHistoryActionsByHash"
    ELSE IF "address" \in data.fields THEN "SelectTransactionHistoryActionsByAddress"
    ELSE "SelectTransactionHistoryActionsByHeight"

\* an empty-page test that never fires
NoActionsIgnored(n) == FALSE

\* if len(actions) == 0
NoActions(n) == n = 0

\* the store's answer is n actions, a total count and possibly an error
getTransactions(c) ==
    /\ pc[c] = "idle"
    /\ \E data \in Payloads({"hash", "address", "height", "offset", "bogus"}),
       offset \in 0..MaxOffset, n \in 0..MaxActions, count \in 0..MaxCount,
       storeErr \in BOOLEAN :
        LET v == validate(data, "ParamsGetPegnetTransaction")
            request == [method |-> "get-transactions", data |-> data, offset |-> offset,
                        n |-> n, count |-> count, storeErr |-> storeErr]
        IN  /\ "offset" \notin data.fields => offset = 0
            /\ (v # "ok" \/ storeErr) => (n = 0 /\ count = 0)
            /\ v # "ok" => ~storeErr
            /\ IF v # "ok" THEN Serve(c, request, ErrorRes(v), {})
               ELSE IF storeErr
               THEN Serve(c, request, ErrorRes("InvalidParams"), {Selector(data)})
               ELSE IF NoActions(n)
               THEN Serve(c, request, ErrorRes("TransactionNotFound"), {Selector(data)})
               ELSE Serve(c, request,
                          [kind |-> "transactions", actions |-> n, count |-> count,
                           nextOffset |-> NextOffset(offset, n, count)],
                          {Selector(data)})

----------------------------------------------------------------------------
(* The lookups                                                             *)

\* getTransaction(getEntry): exists is DoesTransactionExist's answer ("err",
\* "no", "yes"), got is e.Get's ("err", "empty", "populated"), unmarshalOk is
\* txBatch.UnmarshalEntry's
getTransaction(c, getEntry) ==
    /\ pc[c] = "idle"
    /\ \E data \in Payloads({"hash", "chainid", "bogus"}),
          exists \in {"err", "no", "yes"}, got \in {"err", "empty", "populated"},
          unmarshalOk \in BOOLEAN :
        LET v == validate(data, "ParamsGetTransaction")
            request == [method |-> IF getEntry THEN "get-transaction-entry"
                                   ELSE "get-transaction",
                        data |-> data, exists |-> exists, got |-> got,
                        unmarshalOk |-> unmarshalOk]
        IN  /\ v # "ok" => exists = "yes"
            /\ exists # "yes" => got = "populated"
            /\ (got # "populated" \/ getEntry) => unmarshalOk
            /\ IF v # "ok" THEN Serve(c, request, ErrorRes(v), {})
               ELSE IF exists = "err"
               THEN Serve(c, request, ErrorRes("StoreError"), {"DoesTransactionExist"})
               ELSE IF exists = "no"
               THEN Serve(c, request, ErrorRes("TransactionNotFound"), {"DoesTransactionExist"})
               ELSE IF got = "err"
               THEN Serve(c, request, ErrorRes("InternalError"),
                          {"DoesTransactionExist", "Entry.Get"})
               ELSE IF got = "empty"
               THEN Serve(c, request, ErrorRes("TransactionNotFound"),
                          {"DoesTransactionExist", "Entry.Get"})
               ELSE IF getEntry
               THEN Serve(c, request, [kind |-> "entry"], {"DoesTransactionExist", "Entry.Get"})
               ELSE IF ~unmarshalOk
               THEN Serve(c, request, ErrorRes("InternalError"),
                          {"DoesTransactionExist", "Entry.Get"})
               ELSE Serve(c, request, [kind |-> "transaction"],
                          {"DoesTransactionExist", "Entry.Get"})

\* getTransactionStatus: the store answers a height (0: unknown) or an error
getTransactionStatus(c) ==
    /\ pc[c] = "idle"
    /\ \E data \in Payloads({"hash", "bogus"}), storeErr \in BOOLEAN, height \in 0..1 :
        LET v == validate(data, "ParamsGetPegnetTransactionStatus")
            request == [method |-> "get-transaction-status", data |-> data,
                        storeErr |-> storeErr, height |-> height]
        IN  /\ (v # "ok" \/ storeErr) => height = 0
            /\ v # "ok" => ~storeErr
            /\ IF v # "ok" THEN Serve(c, request, ErrorRes(v), {})
               ELSE IF storeErr
               THEN Serve(c, request, ErrorRes("InvalidParams"),
                          {"SelectTransactionHistoryStatus"})
               ELSE IF height = 0
               THEN Serve(c, request, ErrorRes("TransactionNotFound"),
                          {"SelectTransactionHistoryStatus"})
               ELSE Serve(c, request, [kind |-> "status", height |-> height],
                          {"SelectTransactionHistoryStatus"})

\* a store error is nil, sql.ErrNoRows or another error
StoreErrors == {"nil", "ErrNoRows", "other"}

\* getPegnetBalances
getPegnetBalances(c) ==
    /\ pc[c] = "idle"
    /\ \E data \in Payloads({"address", "bogus"}), err \in StoreErrors :
        LET v == validate(data, "ParamsGetPegnetBalances")
            request == [method |-> "get-pegnet-balances", data |-> data, err |-> err]
        IN  /\ v # "ok" => err = "nil"
            /\ IF v # "ok" THEN Serve(c, request, ErrorRes(v), {})
               ELSE IF err = "ErrNoRows"
               THEN Serve(c, request, ErrorRes("AddressNotFound"), {"SelectBalances"})
               ELSE IF err # "nil"
               THEN Serve(c, request, ErrorRes("InternalError"), {"SelectBalances"})
               ELSE Serve(c, request, [kind |-> "tickermap"], {"SelectBalances"})

\* getPegnetIssuance: the issuance lookup, then getSyncStatus(nil)
getPegnetIssuance(c) ==
    /\ pc[c] = "idle"
    /\ \E data \in NoParamPayloads, err \in StoreErrors, ok \in BOOLEAN,
          h \in {U32(0), U32(MaxHeight)}, sync \in {0, MaxSync} :
        LET request == [method |-> "get-pegnet-issuance", data |-> data, err |-> err,
                        heightsOk |-> ok, directoryBlock |-> h, sync |-> sync]
        IN  /\ (err # "nil" \/ ~ok) => h = U32(0)
            /\ err # "nil" => (ok /\ sync = 0)
            /\ IF err = "ErrNoRows"
               THEN Serve(c, request, ErrorRes("AddressNotFound"), {"SelectIssuances"})
               ELSE IF err # "nil"
               THEN Serve(c, request, ErrorRes("InternalError"), {"SelectIssuances"})
               ELSE Serve(c, request,
                          [kind |-> "issuance", syncStatus |-> SyncStatus(ok, h, sync)],
                          {"SelectIssuances", "Heights.Get"})

\* getPegnetRates: the store answers a rate map and an error
getPegnetRates(c) ==
    /\ pc[c] = "idle"
    /\ \E data \in Payloads({"height", "bogus"}), err \in StoreErrors,
          rates \in {NoRates, [t \in Tickers |-> MaxRate]} :
        LET v == validate(data, "ParamsGetPegnetRates")
            request == [method |-> "get-pegnet-rates", data |-> data, err |-> err,
                        rates |-> rates]
        IN  /\ v # "ok" => (err = "nil" /\ rates = NoRates)
            /\ IF v # "ok" THEN Serve(c, request, ErrorRes(v), {})
               ELSE IF err = "ErrNoRows" \/ rates = NoRates
               THEN Serve(c, request, ErrorRes("NotFound"), {"SelectRates"})
               ELSE IF err # "nil"
               THEN Serve(c, request, ErrorRes("InternalError"), {"SelectRates"})
               ELSE Serve(c, request, [kind |-> "tickermap", rates |-> rates],
                          {"SelectRates"})

\* jrpcMethods: the parameter type each registered method validates against
\* ("none": the handler never calls validate)
MethodParams ==
    [m \in {"get-rich-list", "get-sync-status", "get-pegnet-issuance"} |-> "none"] @@
    ("get-transactions" :> "ParamsGetPegnetTransaction") @@
    ("get-transaction-status" :> "ParamsGetPegnetTransactionStatus") @@
    ("get-transaction" :> "ParamsGetTransaction") @@
    ("get-transaction-entry" :> "ParamsGetTransaction") @@
    ("get-pegnet-balances" :> "ParamsGetPegnetBalances") @@
    ("get-pegnet-rates" :> "ParamsGetPegnetRates") @@
    ("send-transaction" :> "ParamsSendTransaction")

----------------------------------------------------------------------------
(* send-transaction: claims                                                *)

Validated(c) ==
    /\ req[c].method = "send-transaction"
    /\ validate(req[c].data, "ParamsSendTransaction") = "ok"

\* C1 (as claimed): no entry is submitted while the funding address holds
\* fewer credits than the entry costs, in any interleaving of requests.
C1_SubmissionsSerialized ==
    \A c \in Clients : loc[c].submitted => loc[c].avail >= loc[c].cost

\* C2: once the balance lookup and the cost computation have succeeded with
\* balance < cost, the request ends with ErrorNoEC and nothing is submitted.
C2_InsufficientFundsIsNoEC ==
    \A c \in Clients :
        (loc[c].checked /\ loc[c].balance < loc[c].cost) =>
            /\ pc[c] = "done"
            /\ res[c] = ErrorRes("NoEC")
            /\ "ComposeCreate" \notin calls[c]
            /\ ~loc[c].submitted

C2_Witness ==
    \E c \in Clients :
        /\ loc[c].checked /\ loc[c].balance < loc[c].cost
        /\ pc[c] = "done" /\ res[c] = ErrorRes("NoEC")

C4_ClientFailureIsInternalError ==
    \A c \in Clients :
        loc[c].failed => (pc[c] = "done" /\ res[c] = ErrorRes("InternalError"))

----------------------------------------------------------------------------
(* get-sync-status and get-transactions: claims                            *)

IsPage(c) == req[c].method = "get-transactions" /\ res[c].kind = "transactions"

\* C5: a successful get-transactions result with offset O, L >= 1 actions and
\* count C has nextOffset = O + L when O + L < C, and nextOffset = 0 otherwise.
C5_NextOffset ==
    \A c \in Clients :
        IsPage(c) =>
            /\ res[c].actions >= 1
            /\ res[c].actions = req[c].n /\ res[c].count = req[c].count
            /\ (req[c].offset + req[c].n < req[c].count
                    => res[c].nextOffset = req[c].offset + req[c].n)
            /\ (req[c].offset + req[c].n >= req[c].count => res[c].nextOffset = 0)

C5_Witness ==
    \E c \in Clients :
        /\ IsPage(c) /\ req[c].offset > 0
        /\ req[c].offset + req[c].n < req[c].count
        /\ res[c].nextOffset = req[c].offset + req[c].n

\* C6 (as claimed): whenever O < C, nextOffset > O and nextOffset <= C; and
\* when O + returned = C, nextOffset = 0.
C6_NextOffsetAlwaysAdvances ==
    \A c \in Clients :
        IsPage(c) =>
            /\ (req[c].offset < req[c].count =>
                    (res[c].nextOffset > req[c].offset /\ res[c].nextOffset <= req[c].count))
            /\ (req[c].offset + req[c].n = req[c].count => res[c].nextOffset = 0)

\* C6 (amended): whenever O < C, nextOffset is 0 or satisfies O < nextOffset <= C;
\* and when O + returned = C, nextOffset = 0.
C6_NextOffsetBound ==
    \A c \in Clients :
        IsPage(c) =>
            /\ (req[c].offset < req[c].count =>
                    \/ res[c].nextOffset = 0
                    \/ (res[c].nextOffset > req[c].offset /\ res[c].nextOffset <= req[c].count))
            /\ (req[c].offset + req[c].n = req[c].count => res[c].nextOffset = 0)

C6_Witness ==
    \E c \in Clients :
        /\ IsPage(c) /\ req[c].offset < req[c].count
        /\ req[c].offset + req[c].n = req[c].count /\ res[c].nextOffset = 0

\* C10 (as claimed): get-sync-status always succeeds; syncHeight is the local
\* height; currentHeight is -1 when the height source fails and the reported
\* height when it succeeds.
C10_SyncStatus ==
    \A c \in Clients :
        req[c].method = "get-sync-status" =>
            /\ res[c].kind = "syncstatus"
            /\ res[c].Sync = req[c].sync
            /\ ~req[c].heightsOk => res[c].Current = -1
            /\ req[c].heightsOk => U32(res[c].Current) = req[c].directoryBlock

\* C11: a validated get-transactions request whose store query (by hash, else
\* by address, else by height) returns zero actions without error ends with
\* the transaction-not-found error; a success result holds at least one action.
C11_EmptyPageIsNotFound ==
    \A c \in Clients :
        (/\ req[c].method = "get-transactions"
         /\ validate(req[c].data, "ParamsGetPegnetTransaction") = "ok"
         /\ ~req[c].storeErr) =>
            /\ calls[c] =
                  {IF "hash" \in req[c].data.fields
                   THEN "SelectTransactionHistoryActionsByHash"
                   ELSE IF "address" \in req[c].data.fields
                   THEN "SelectTransactionHistoryActionsByAddress"
                   ELSE "SelectTransactionHistoryActionsByHeight"}
            /\ req[c].n = 0 => res[c] = ErrorRes("TransactionNotFound")
            /\ res[c].kind = "transactions" => (req[c].n >= 1 /\ res[c].actions = req[c].n)

C11_Witness ==
    \E c \in Clients :
        /\ req[c].method = "get-transactions"
        /\ req[c].data.fields = {"address", "height", "offset"}
        /\ req[c].offset > 0 /\ req[c].count > 0 /\ req[c].n = 0
        /\ ~req[c].storeErr
        /\ calls[c] = {"SelectTransactionHistoryActionsByAddress"}
        /\ res[c] = ErrorRes("TransactionNotFound")

\* C12 (as claimed): get-pegnet-rates answers not-found only when the store
\* reports no rates (ErrNoRows, or an empty map without error); any other
\* failure of the rate lookup is answered with the internal error.
C12_NotFoundOnlyWithoutRates ==
    \A c \in Clients :
        (/\ req[c].method = "get-pegnet-rates"
         /\ validate(req[c].data, "ParamsGetPegnetRates") = "ok") =>
            /\ res[c] = ErrorRes("NotFound") =>
                  (req[c].err = "ErrNoRows" \/ (req[c].err = "nil" /\ req[c].rates = NoRates))
            /\ req[c].err = "other" => res[c] = ErrorRes("InternalError")

----------------------------------------------------------------------------
(* get-rich-list and parameter validation: claims                          *)

IsRich(c) == req[c].method = "get-rich-list" /\ res[c].kind = "richlist"

Total(c, a) == SumUSD(Tickers, req[c].balances[a], req[c].rates)

\* C7: a get-rich-list result has at most 100 entries, ordered by non-increasing
\* USD value, none of value 0: every entry is an address with a nonzero total.
C7_RichListRanked ==
    \A c \in Clients :
        IsRich(c) =>
            LET list == res[c].top100 IN
            /\ Len(list) <= Top100Limit
            /\ \A i \in 1..(Len(list) - 1) : ~Greater(list[i + 1].usdequiv, list[i].usdequiv)
            /\ \A i \in 1..Len(list) :
                  /\ list[i].usdequiv.num # 0
                  /\ list[i].usdequiv = USDEquiv(Total(c, list[i].address))

C7_Witness ==
    \E c \in Clients :
        /\ IsRich(c)
        /\ Len(req[c].balances) > Top100Limit
        /\ Cardinality({a \in 1..Len(req[c].balances) : Total(c, a) # 0}) > Top100Limit
        /\ Len(res[c].top100) = Top100Limit
        /\ Greater(res[c].top100[1].usdequiv, res[c].top100[Top100Limit].usdequiv)

\* C8 (as claimed): when the rate lookup fails or yields no rates,
\* get-rich-list returns an error.
C8_NoRatesIsAnError ==
    \A c \in Clients :
        (/\ req[c].method = "get-rich-list"
         /\ ~req[c].addrsErr
         /\ (req[c].ratesErr \/ req[c].rates = NoRates)) => res[c].kind = "error"

\* C9 (as claimed): for every method, a non-empty payload with a field outside
\* the method's parameter schema is answered invalid-params before any
\* collaborator is called.
C9_UnknownFieldIsInvalidParams ==
    \A c \in Clients :
        (/\ req[c].method # "none"
         /\ ~req[c].data.empty
         /\ ~(req[c].data.fields \subseteq Schema(MethodParams[req[c].method]))) =>
            (pc[c] = "done" /\ res[c] = ErrorRes("InvalidParams") /\ calls[c] = {})

----------------------------------------------------------------------------
(* Specifications                                                          *)

Init ==
    /\ ecKeyValid \in BOOLEAN
    /\ ecBalance \in 0..MaxBalance
    /\ pc = [c \in Clients |-> "idle"]
    /\ req = [c \in Clients |-> NoRequest]
    /\ loc = [c \in Clients |-> NoLocals]
    /\ res = [c \in Clients |-> NoResult]
    /\ calls = [c \in Clients |-> {}]

\* the payloads concurrent send-transaction requests are drawn from
SendPayloads ==
    {d \in Payloads({"entry", "dryrun", "bogus"}) :
        d.wellTyped /\ ("bogus" \in d.fields => d.fields = {"entry", "bogus"})}

SendStart == \E c \in Clients : sendTransactionStart(c, SendPayloads)
SendGetBalance == \E c \in Clients : sendTransactionGetBalance(c)
SendComposeCreate == \E c \in Clients : sendTransactionComposeCreate(c)
SendFinish == \E c \in Clients : Finish(c)

NextSend == SendStart \/ SendGetBalance \/ SendComposeCreate \/ SendFinish

\* concurrent send-transaction requests against one funding address
SpecSend == Init /\ [][NextSend]_vars

ApiClients == {1}

GetSyncStatus == \E c \in ApiClients : getSyncStatus(c)
GetTransactions == \E c \in ApiClients : getTransactions(c)
GetRichList == \E c \in ApiClients : getRichList(c)
GetTransaction == \E c \in ApiClients : getTransaction(c, FALSE)
GetTransactionEntry == \E c \in ApiClients : getTransaction(c, TRUE)
GetTransactionStatus == \E c \in ApiClients : getTransactionStatus(c)
GetPegnetBalances == \E c \in ApiClients : getPegnetBalances(c)
GetPegnetIssuance == \E c \in ApiClients : getPegnetIssuance(c)
GetPegnetRates == \E c \in ApiClients : getPegnetRates(c)
ApiSendStart ==
    \E c \in ApiClients :
        sendTransactionStart(c, Payloads({"entry", "dryrun", "chainid", "bogus"}))
ApiSendGetBalance == \E c \in ApiClients : sendTransactionGetBalance(c)
ApiSendComposeCreate == \E c \in ApiClients : sendTransactionComposeCreate(c)
ApiFinish == \E c \in ApiClients : Finish(c)

\* get-sync-status requests
SpecSync == Init /\ [][GetSyncStatus \/ ApiFinish]_vars

\* get-transactions requests
SpecTx == Init /\ [][GetTransactions \/ ApiFinish]_vars

\* get-rich-list requests
SpecRich == Init /\ [][GetRichList \/ ApiFinish]_vars

\* one request at a time to any registered method
NextApi ==
    \/ GetRichList \/ GetTransactions \/ GetTransactionStatus
    \/ GetTransaction \/ GetTransactionEntry
    \/ GetPegnetBalances \/ GetPegnetIssuance \/ GetPegnetRates
    \/ GetSyncStatus
    \/ ApiSendStart \/ ApiSendGetBalance \/ ApiSendComposeCreate
    \/ ApiFinish

SpecApi == Init /\ [][NextApi]_vars

====
